---- MODULE Spec2Model ----
(***************************************************************************)
(* Startup / shutdown orchestration of CSGOAssetBot (src/main.py).         *)
(*                                                                         *)
(* The process is modelled as the main coroutine (pc) plus the coroutines  *)
(* that run CSGOAssetBot.close (closer).  Every call into a collaborator   *)
(* (DatabaseManager, CacheManager, SteamAPIClient, PriceTracker,           *)
(* load_extension) either returns or raises an Exception; which of the two *)
(* happens is chosen nondeterministically at the call.                     *)
(*                                                                         *)
(* Host library behaviour the code relies on (discord.py 2.x, CPython      *)
(* 3.11+ asyncio.run): Client.start logs in and then calls setup_hook      *)
(* once; on_ready is dispatched when a session is established, and again   *)
(* whenever a session resume fails; leaving the                            *)
(* `async with bot` block calls bot.close() unless the client is already   *)
(* closed; commands.Bot.close marks the client closed and does not raise;  *)
(* an exception leaving main() other than KeyboardInterrupt ends the       *)
(* process through sys.exit(1).                                            *)
(***************************************************************************)
EXTENDS Integers, Sequences, FiniteSets, TLC

\* ---------------------------------------------------------------- bounds
\* number of close() calls made while the bot is running (commands, host)
MaxExplicit == 1
\* number of entries in the bot/cogs directory
MaxFiles == 2
\* number of ready events the host delivers in one run (the first when the
\* session is established, another after each failed session resume)
MaxReady == 2

\* ---------------------------------------------------------- environment
\* check_requirements.required_vars
required_vars == <<"DISCORD_TOKEN", "STEAM_API_KEY", "DATABASE_URL", "REDIS_URL">>

\* what os.getenv can return for a name: None, the empty string, a value
EnvValues == {"None", "", "x"}

RequiredNames == {required_vars[i] : i \in 1..Len(required_vars)}

\* Python truth value of the string-or-None returned by os.getenv
FalsyOnlyNone(v) == v = "None"
Falsy(v) == v = "None" \/ v = ""

RECURSIVE SelectMissing(_, _)
SelectMissing(vars, e) ==
    IF vars = <<>> THEN <<>>
    ELSE IF Falsy(e[Head(vars)])
         THEN <<Head(vars)>> \o SelectMissing(Tail(vars), e)
         ELSE SelectMissing(Tail(vars), e)

\* missing_vars = [var for var in required_vars if not os.getenv(var)]
missing_vars(e) == SelectMissing(required_vars, e)

\* ------------------------------------------------------- cogs directory
\* a directory entry: its stem as a sequence of characters, and its suffix
FileUniverse ==
    { [stem |-> <<"a">>, suffix |-> "py"],
      [stem |-> <<"_", "b">>, suffix |-> "py"],
      [stem |-> <<"c", "_">>, suffix |-> "py"],
      [stem |-> <<"d">>, suffix |-> "txt"] }

\* cogs_dir.glob('*.py') keeps the entries whose name ends in .py
GlobPy(f) == f.suffix = "py"

\* cog_file.name.startswith('_')
IsPrivate(f) == Len(f.stem) >= 1 /\ f.stem[1] = "_"

\* the order in which glob yields the directory: any order, no repetition
Listings ==
    { s \in UNION { [1..n -> FileUniverse] : n \in 0..MaxFiles } :
        \A i, j \in 1..Len(s) : i # j => s[i] # s[j] }

\* ------------------------------------------------------------- services
Services == {"db", "cache", "steam_client", "price_tracker"}

\* the services that have a connect()/start() and a close()/stop()
Managed == {"db", "cache", "price_tracker"}

\* setup_hook's steps, in program order
Steps == <<"db", "cache", "steam_client", "price_tracker", "load_cogs">>

StepNames == {Steps[i] : i \in 1..Len(Steps)}

\* the order in which close() visits the services
ReverseOfStartup == <<"price_tracker", "cache", "db">>
CloseOrder == <<"price_tracker", "db", "cache">>

\* coroutines that run close(): 0 is the exit of `async with bot`,
\* 1..MaxExplicit are calls made while the bot is running
Closers == 0..MaxExplicit

VARIABLES
    env,          \* the process environment, restricted to required_vars
    dirExists,    \* bot/cogs exists
    listing,      \* what glob yields, in order
    pc,           \* position of the main coroutine
    self,         \* the bot's service handles: self.db, self.cache, ...
    started,      \* per managed service: connect()/start() has returned
    attempted,    \* per startup step: how many times it was begun
    failedAt,     \* the startup step that raised, or "none"
    todo,         \* load_cogs: entries the for loop has not reached yet
    loadAttempts, \* per directory entry: calls of load_extension
    extensions,   \* Bot.extensions: the cogs whose load_extension returned
    loadResult,   \* what load_cogs returned ("unset" until it returns)
    log,          \* log entries of preflight, setup_hook and load_cogs
    closer,       \* per close() coroutine: status, position, calls made
    cleanups,     \* per managed service: calls of its close()/stop()
    closed,       \* Client.is_closed()
    interrupted,  \* the run was ended by an interrupt
    exitStatus,   \* process exit status (-1 while running)
    readyCalls,   \* invocations of on_ready
    guildLogs,    \* "Guilds: n" lines logged
    presenceSets, \* calls of change_presence
    hookCalled,   \* on_command_error has been invoked
    hookRaised,   \* an on_command_error invocation raised to the host
    sendFailed    \* the error handler failed to send a response

vars == <<env, dirExists, listing, pc, self, started, attempted, failedAt,
          todo, loadAttempts, extensions, loadResult, log, closer, cleanups,
          closed, interrupted, exitStatus, readyCalls, guildLogs,
          presenceSets, hookCalled, hookRaised, sendFailed>>

inputVars == <<env, dirExists, listing>>
setupVars == <<self, started, attempted, failedAt>>
cogVars == <<todo, loadAttempts, extensions, loadResult>>
closeVars == <<closer, cleanups, closed>>
eventVars == <<readyCalls, guildLogs, presenceSets, hookCalled, hookRaised,
               sendFailed>>

IdleCloser == [st |-> "idle", i |-> 1, trace |-> <<>>]

Init ==
    /\ env \in [RequiredNames -> EnvValues]
    /\ dirExists \in BOOLEAN
    /\ listing \in Listings
    /\ (~dirExists => listing = <<>>)
    /\ pc = "main"
    /\ self = [s \in Services |-> "unset"]
    /\ started = [s \in Managed |-> FALSE]
    /\ attempted = [s \in StepNames |-> 0]
    /\ failedAt = "none"
    /\ todo = <<>>
    /\ loadAttempts = [f \in FileUniverse |-> 0]
    /\ extensions = {}
    /\ loadResult = "unset"
    /\ log = <<>>
    /\ closer = [c \in Closers |-> IdleCloser]
    /\ cleanups = [s \in Managed |-> 0]
    /\ closed = FALSE
    /\ interrupted = FALSE
    /\ exitStatus = -1
    /\ readyCalls = 0
    /\ guildLogs = 0
    /\ presenceSets = 0
    /\ hookCalled = FALSE
    /\ hookRaised = FALSE
    /\ sendFailed = FALSE

\* ------------------------------------------------------------ preflight
\* check_requirements(): one diagnostic naming every missing variable,
\* then sys.exit(1); otherwise main() goes on to construct the bot
check_requirements ==
    /\ pc = "main"
    /\ LET m == missing_vars(env) IN
         IF m # <<>>
         THEN /\ log' = Append(log, [level |-> "ERROR",
                                     msg |-> "Missing required environment variables",
                                     args |-> m])
              /\ exitStatus' = 1
              /\ pc' = "exited"
         ELSE /\ pc' = "init"
              /\ UNCHANGED <<log, exitStatus>>
    /\ UNCHANGED eventVars
    /\ UNCHANGED <<inputVars, setupVars, cogVars, closeVars, interrupted>>

\* CSGOAssetBot.__init__: every handle is None
BotInit ==
    /\ pc = "init"
    /\ self' = [s \in Services |-> "None"]
    /\ pc' = "start"
    /\ UNCHANGED eventVars
    /\ UNCHANGED <<inputVars, started, attempted, failedAt, cogVars, log,
                   closeVars, interrupted, exitStatus>>

\* `async with bot: await bot.start(...)`: the host logs in first
Start ==
    /\ pc = "start"
    /\ pc' = "login"
    /\ UNCHANGED eventVars
    /\ UNCHANGED <<inputVars, setupVars, cogVars, log, closeVars,
                   interrupted, exitStatus>>

\* bot.start: the host's login either raises (setup_hook is never called)
\* or succeeds and the host calls setup_hook
Login ==
    /\ pc = "login"
    /\ \E ok \in BOOLEAN :
         /\ pc' = IF ok THEN "db" ELSE "aexit"
         /\ failedAt' = IF ok THEN failedAt ELSE "login"
    /\ UNCHANGED eventVars
    /\ UNCHANGED <<inputVars, self, started, attempted, cogVars, log,
                   closeVars, interrupted, exitStatus>>

\* -------------------------------------------------------------- startup
\* where setup_hook goes after a step: into its except block if the step
\* raised, on to the next statement otherwise
SwallowPc(next, raised) == next
NextPc(next, raised) == IF raised THEN "except" ELSE next

\* outcomes of `self.x = X(...); await self.x.connect()`: both return,
\* the constructor raises, or connect()/start() raises
ConnectOutcomes == {"ok", "ctor", "connect"}

\* one construct-and-connect step of setup_hook
ConnectStep(svc, next) ==
    /\ pc = svc
    /\ attempted' = [attempted EXCEPT ![svc] = @ + 1]
    /\ \E out \in ConnectOutcomes :
         /\ self' = IF out = "ctor" THEN self ELSE [self EXCEPT ![svc] = "obj"]
         /\ started' = [started EXCEPT ![svc] = (out = "ok")]
         /\ failedAt' = IF out = "ok" THEN failedAt ELSE svc
         /\ pc' = NextPc(next, out # "ok")
    /\ UNCHANGED eventVars
    /\ UNCHANGED <<inputVars, cogVars, log, closeVars, interrupted, exitStatus>>

\* self.db = DatabaseManager(self.config); await self.db.connect()
SetupDbThenSteam == ConnectStep("db", "steam_client")
SetupDb == ConnectStep("db", "cache")

\* self.cache = CacheManager(self.config); await self.cache.connect()
SetupCache == ConnectStep("cache", "steam_client")

\* self.steam_client = SteamAPIClient(api_key=...): construction only
SetupSteamUnassigned ==
    /\ pc = "steam_client"
    /\ attempted' = [attempted EXCEPT !["steam_client"] = @ + 1]
    /\ \E raised \in BOOLEAN :
         /\ failedAt' = IF raised THEN "steam_client" ELSE failedAt
         /\ pc' = NextPc("price_tracker", raised)
    /\ UNCHANGED eventVars
    /\ UNCHANGED <<inputVars, self, started, cogVars, log, closeVars,
                   interrupted, exitStatus>>

SetupSteam ==
    /\ pc = "steam_client"
    /\ attempted' = [attempted EXCEPT !["steam_client"] = @ + 1]
    /\ \E raised \in BOOLEAN :
         /\ self' = IF raised THEN self ELSE [self EXCEPT !["steam_client"] = "obj"]
         /\ failedAt' = IF raised THEN "steam_client" ELSE failedAt
         /\ pc' = NextPc("price_tracker", raised)
    /\ UNCHANGED eventVars
    /\ UNCHANGED <<inputVars, started, cogVars, log, closeVars, interrupted,
                   exitStatus>>

\* self.price_tracker = PriceTracker(self.db, self.cache); await ...start()
SetupTracker == ConnectStep("price_tracker", "load_cogs")

\* except Exception as e: logger.error(...); raise
SetupExceptSwallows ==
    /\ pc = "except"
    /\ log' = Append(log, [level |-> "ERROR",
                           msg |-> "Error during bot setup",
                           args |-> <<failedAt>>])
    /\ pc' = "running"
    /\ UNCHANGED eventVars
    /\ UNCHANGED <<inputVars, setupVars, cogVars, closeVars, interrupted,
                   exitStatus>>

SetupExcept ==
    /\ pc = "except"
    /\ log' = Append(log, [level |-> "ERROR",
                           msg |-> "Error during bot setup",
                           args |-> <<failedAt>>])
    /\ pc' = "aexit"
    /\ UNCHANGED eventVars
    /\ UNCHANGED <<inputVars, setupVars, cogVars, closeVars, interrupted,
                   exitStatus>>

\* ------------------------------------------------------------ load_cogs
\* the log line load_cogs writes for one candidate
AlwaysLoaded(raised, f) ==
    [level |-> "INFO", msg |-> "Loaded cog", args |-> f.stem]
CogLogEntry(raised, f) ==
    IF raised
    THEN [level |-> "ERROR", msg |-> "Failed to load cog", args |-> f.stem]
    ELSE [level |-> "INFO", msg |-> "Loaded cog", args |-> f.stem]

\* where load_cogs goes after load_extension: the except clause of the
\* loop body handles the failure, so the loop continues either way
AbortOnFailure(raised) == IF raised THEN "except" ELSE "cog_loop"
CogPc(raised) == "cog_loop"

\* load_cogs up to the for loop: the directory test and the glob
LoadCogsBegin ==
    /\ pc = "load_cogs"
    /\ attempted' = [attempted EXCEPT !["load_cogs"] = @ + 1]
    /\ IF ~dirExists
       THEN /\ log' = Append(log, [level |-> "WARNING",
                                   msg |-> "Cogs directory not found",
                                   args |-> <<>>])
            /\ loadResult' = "None"
            /\ pc' = "running"
            /\ UNCHANGED todo
       ELSE /\ todo' = SelectSeq(listing, GlobPy)
            /\ pc' = "cog_loop"
            /\ UNCHANGED <<log, loadResult>>
    /\ UNCHANGED eventVars
    /\ UNCHANGED <<inputVars, self, started, failedAt, loadAttempts,
                   extensions, closeVars, interrupted, exitStatus>>

\* one iteration of the for loop, or its end (load_cogs returns None and
\* setup_hook completes)
CogLoop ==
    /\ pc = "cog_loop"
    /\ IF todo = <<>>
       THEN /\ loadResult' = "None"
            /\ pc' = "running"
            /\ UNCHANGED <<todo, loadAttempts, extensions, log, failedAt>>
       ELSE LET f == Head(todo) IN
            /\ todo' = Tail(todo)
            /\ UNCHANGED loadResult
            /\ IF IsPrivate(f)
               THEN /\ pc' = "cog_loop"
                    /\ UNCHANGED <<loadAttempts, extensions, log, failedAt>>
               ELSE \E raised \in BOOLEAN :
                    /\ loadAttempts' = [loadAttempts EXCEPT ![f] = @ + 1]
                    /\ extensions' = IF raised THEN extensions
                                     ELSE extensions \cup {f}
                    /\ log' = Append(log, CogLogEntry(raised, f))
                    /\ pc' = CogPc(raised)
                    /\ failedAt' = IF pc' = "except" THEN "load_cogs"
                                   ELSE failedAt
    /\ UNCHANGED eventVars
    /\ UNCHANGED <<inputVars, self, started, attempted, closeVars,
                   interrupted, exitStatus>>

\* ------------------------------------------------------------- shutdown
\* `if self.x:` in close()
AlwaysTruthy(h) == TRUE
Truthy(h) == h = "obj"

\* what close() leaves in self.x after calling its cleanup: the handle
ClearedAfterCleanup(h) == "None"
HandleAfterCleanup(h) == h

\* a close() call made while the bot runs (a command, the host library);
\* the calls are numbered in the order in which they are made
CallClose(c) ==
    /\ pc = "running"
    /\ c # 0
    /\ closer[c].st = "idle"
    /\ \A b \in 1..(c - 1) : closer[b].st # "idle"
    /\ closer' = [closer EXCEPT ![c].st = "run"]
    /\ UNCHANGED eventVars
    /\ UNCHANGED <<inputVars, setupVars, cogVars, log, pc, cleanups, closed,
                   interrupted, exitStatus>>

\* one statement of close(): a guarded cleanup call, or super().close()
CloseStep(c) ==
    /\ pc \in {"running", "aexit", "closing"}
    /\ closer[c].st = "run"
    /\ LET i == closer[c].i IN
       IF i <= Len(CloseOrder)
       THEN LET svc == CloseOrder[i] IN
            /\ UNCHANGED closed
            /\ IF Truthy(self[svc])
               THEN /\ cleanups' = [cleanups EXCEPT ![svc] = @ + 1]
                    /\ self' = [self EXCEPT ![svc] = HandleAfterCleanup(@)]
                    /\ \E raised \in BOOLEAN :
                         closer' = [closer EXCEPT
                            ![c].trace = Append(@, svc),
                            ![c].i = i + 1,
                            ![c].st = IF raised THEN "raised" ELSE "run"]
               ELSE /\ closer' = [closer EXCEPT ![c].i = i + 1]
                    /\ UNCHANGED <<cleanups, self>>
       ELSE /\ closed' = TRUE
            /\ closer' = [closer EXCEPT ![c].st = "done"]
            /\ UNCHANGED <<cleanups, self>>
    /\ UNCHANGED eventVars
    /\ UNCHANGED <<inputVars, started, attempted, failedAt, cogVars, log, pc,
                   interrupted, exitStatus>>

\* ---------------------------------------------------------------- events
\* on_ready: three log lines (one of them the guild count), then
\* change_presence.  The host calls it when a session is established.
on_ready_without_presence ==
    /\ pc = "running"
    /\ ~closed
    /\ readyCalls < MaxReady
    /\ readyCalls' = readyCalls + 1
    /\ guildLogs' = guildLogs + 1
    /\ UNCHANGED <<presenceSets, hookCalled, hookRaised, sendFailed>>
    /\ UNCHANGED <<inputVars, setupVars, cogVars, log, pc, closeVars,
                   interrupted, exitStatus>>

on_ready ==
    /\ pc = "running"
    /\ ~closed
    /\ readyCalls < MaxReady
    /\ readyCalls' = readyCalls + 1
    /\ guildLogs' = guildLogs + 1
    /\ presenceSets' = presenceSets + 1
    /\ UNCHANGED <<hookCalled, hookRaised, sendFailed>>
    /\ UNCHANGED <<inputVars, setupVars, cogVars, log, pc, closeVars,
                   interrupted, exitStatus>>

\* the errors a command can raise, by what the handler makes of them
ErrorKinds == {"bad_input", "permission_denied", "upstream_timeout",
               "unclassified"}

\* ErrorHandler.handle's classification of an error
Classify(kind) ==
    CASE kind = "bad_input" -> "bad input"
      [] kind = "permission_denied" -> "permission denied"
      [] kind = "upstream_timeout" -> "upstream unavailable"
      [] OTHER -> "internal"

\* ErrorHandler.handle(ctx, error): classify, send the category's message
\* to the context; a failure of the send is logged and swallowed
ErrorHandlerHandle(kind, sendFails) ==
    [category |-> Classify(kind), sent |-> ~sendFails, raised |-> FALSE]

\* on_command_error awaits the handler and nothing else: it raises
\* exactly when the handler does
ReRaisesError(handlerRaised) == TRUE
OnCommandErrorRaises(handlerRaised) == handlerRaised

\* on_command_error(ctx, error)
on_command_error ==
    /\ pc = "running"
    /\ \E kind \in ErrorKinds, sendFails \in BOOLEAN :
         LET r == ErrorHandlerHandle(kind, sendFails) IN
         /\ hookCalled' = TRUE
         /\ hookRaised' = (hookRaised \/ OnCommandErrorRaises(r.raised))
         /\ sendFailed' = (sendFailed \/ ~r.sent)
    /\ UNCHANGED <<readyCalls, guildLogs, presenceSets>>
    /\ UNCHANGED <<inputVars, setupVars, cogVars, log, pc, closeVars,
                   interrupted, exitStatus>>

\* KeyboardInterrupt: the main task is cancelled inside bot.start
Interrupt ==
    /\ pc = "running"
    /\ interrupted' = TRUE
    /\ pc' = "aexit"
    /\ UNCHANGED eventVars
    /\ UNCHANGED <<inputVars, setupVars, cogVars, log, closeVars, exitStatus>>

\* bot.start returns once the client is closed
StartReturns ==
    /\ pc = "running"
    /\ closed
    /\ pc' = "aexit"
    /\ UNCHANGED eventVars
    /\ UNCHANGED <<inputVars, setupVars, cogVars, log, closeVars,
                   interrupted, exitStatus>>

\* leaving `async with bot`: close() is awaited unless already closed
AExit ==
    /\ pc = "aexit"
    /\ IF closed
       THEN /\ pc' = "exit"
            /\ UNCHANGED closer
       ELSE /\ pc' = "closing"
            /\ closer' = [closer EXCEPT ![0].st = "run"]
    /\ UNCHANGED eventVars
    /\ UNCHANGED <<inputVars, setupVars, cogVars, log, cleanups, closed,
                   interrupted, exitStatus>>

\* the close() awaited by the exit of `async with bot` returned or raised
AExitDone ==
    /\ pc = "closing"
    /\ closer[0].st \in {"done", "raised"}
    /\ pc' = "exit"
    /\ UNCHANGED eventVars
    /\ UNCHANGED <<inputVars, setupVars, cogVars, log, closeVars,
                   interrupted, exitStatus>>

\* exit status of the process: an Exception that leaves main() reaches
\* sys.exit(1); a KeyboardInterrupt or a normal return leaves status 0
ExitCodeCloseOnly(startupRaised, closeRaised) ==
    IF closeRaised THEN 1 ELSE 0
ExitCode(startupRaised, closeRaised) ==
    IF startupRaised \/ closeRaised THEN 1 ELSE 0

Exit ==
    /\ pc = "exit"
    /\ exitStatus' = ExitCode(failedAt # "none", closer[0].st = "raised")
    /\ pc' = "exited"
    /\ UNCHANGED eventVars
    /\ UNCHANGED <<inputVars, setupVars, cogVars, log, closeVars, interrupted>>

Next ==
    \/ check_requirements
    \/ BotInit
    \/ Start
    \/ Login
    \/ SetupDb
    \/ SetupCache
    \/ SetupSteam
    \/ SetupTracker
    \/ SetupExcept
    \/ LoadCogsBegin
    \/ CogLoop
    \/ \E c \in Closers : CallClose(c)
    \/ \E c \in Closers : CloseStep(c)
    \/ on_ready
    \/ on_command_error
    \/ Interrupt
    \/ StartReturns
    \/ AExit
    \/ AExitDone
    \/ Exit

Spec == Init /\ [][Next]_vars

\* ---------------------------------------------------------------------
\* Properties
\* ---------------------------------------------------------------------
IsPrefix(s, t) == Len(s) <= Len(t) /\ \A i \in 1..Len(s) : s[i] = t[i]

Count(s, x) == Cardinality({i \in 1..Len(s) : s[i] = x})

Terminated(c) == closer[c].st \in {"done", "raised"}

AllStarted == \A s \in Managed : started[s]

\* C1: fail-fast startup.  If the startup step at position k raised, no
\* step at a later position of the startup sequence has been attempted.
C1_FailFastStartup ==
    \A k \in 1..Len(Steps) :
        failedAt = Steps[k] =>
            \A j \in (k + 1)..Len(Steps) : attempted[Steps[j]] = 0

\* the cache step raised after the storage step succeeded, the run is
\* over, and neither the price tracker nor the cogs were touched
C1_Witness ==
    /\ pc = "exited"
    /\ failedAt = "cache"
    /\ attempted["db"] = 1 /\ attempted["cache"] = 1
    /\ attempted["price_tracker"] = 0 /\ attempted["load_cogs"] = 0

\* C2: best-effort shutdown.  When a close() call is over, it has invoked
\* the cleanup of every service that had started, each exactly once,
\* whichever of the cleanups raised.
C2_BestEffortShutdown ==
    \A c \in Closers :
        Terminated(c) =>
            \A s \in Managed : started[s] => Count(closer[c].trace, s) = 1

\* C3 (as claimed): with all three services started, a shutdown stops the
\* price tracker, then closes the cache, then closes the storage.
C3_ReverseOfStartupOrder ==
    \A c \in Closers :
        AllStarted => IsPrefix(closer[c].trace, ReverseOfStartup)

\* C3 (amended): with all three services started, a shutdown stops the
\* price tracker, then closes the storage, then closes the cache; the
\* cache close never precedes the storage close.
C3_TrackerDbCacheOrder ==
    \A c \in Closers :
        AllStarted =>
            IsPrefix(closer[c].trace, <<"price_tracker", "db", "cache">>)

\* a shutdown that went through all three cleanups and completed
C3_Witness ==
    \E c \in Closers :
        /\ AllStarted
        /\ closer[c].st = "done"
        /\ closer[c].trace = <<"price_tracker", "db", "cache">>

\* C4: single shutdown pass.  Over all close() calls of a run, each
\* service's cleanup is invoked at most once and no close() call raises.
C4_SingleShutdownPass ==
    /\ \A s \in Managed : cleanups[s] <= 1
    /\ \A c \in Closers : closer[c].st # "raised"

\* C5 (as claimed): a cleanup is invoked only on a service whose
\* connect()/start() returned successfully.
C5_CleanupOnlyIfStarted ==
    \A s \in Managed : cleanups[s] > 0 => started[s]

\* C5 (amended): a cleanup is invoked only on a service whose handle was
\* assigned, that is, whose constructor returned.
C5_CleanupOnlyIfConstructed ==
    /\ \A s \in Managed : cleanups[s] > 0 => self[s] = "obj"
    /\ \A c \in Closers : \A i \in 1..Len(closer[c].trace) :
           self[closer[c].trace[i]] = "obj"

\* the cache constructor raised after the storage connected: the shutdown
\* closed the storage and left the cache alone
C5_Witness ==
    /\ pc = "exited"
    /\ failedAt = "cache"
    /\ self["cache"] = "None"
    /\ closer[0].st = "done"
    /\ cleanups["db"] = 1 /\ cleanups["cache"] = 0

\* C6: shutdown always completes.  A close() call that is over has run
\* the host close and has not let a cleanup failure escape.
C6_ShutdownCompletes ==
    \A c \in Closers :
        closer[c].st \notin {"idle", "run"} =>
            closer[c].st = "done" /\ closed

\* C7: a failing cleanup does not change the exit status.  A run whose
\* startup succeeded exits with the status of a clean shutdown, 0.
C7_ExitStatusUnchanged ==
    (pc = "exited" /\ missing_vars(env) = <<>> /\ failedAt = "none")
        => exitStatus = 0

\* the candidates of load_cogs: the .py entries of the directory whose
\* name does not begin with '_'
Candidates ==
    { f \in FileUniverse :
        /\ \E i \in 1..Len(listing) : listing[i] = f
        /\ f.suffix = "py"
        /\ f.stem[1] # "_" }

\* C8: extension loading is fault-isolated.  load_cogs never raises, no
\* entry is attempted twice, only candidates are attempted, and when
\* load_cogs has returned every candidate has been attempted once.
C8_FaultIsolatedLoading ==
    /\ failedAt # "load_cogs"
    /\ \A f \in FileUniverse :
           /\ loadAttempts[f] <= 1
           /\ f \notin Candidates => loadAttempts[f] = 0
    /\ loadResult = "None" => \A f \in Candidates : loadAttempts[f] = 1

\* the first candidate raised and the second was still attempted and
\* loaded
C8_Witness ==
    /\ loadResult = "None"
    /\ Len(listing) = 2
    /\ listing[1] \in Candidates /\ listing[2] \in Candidates
    /\ loadAttempts[listing[1]] = 1 /\ listing[1] \notin extensions
    /\ loadAttempts[listing[2]] = 1 /\ listing[2] \in extensions

\* the descriptors in the value load_cogs returned
ReturnedDescriptors ==
    IF loadResult \in {"unset", "None"} THEN {} ELSE loadResult

\* C9 (as claimed): the value load_cogs returns holds one descriptor per
\* candidate.
C9_DescriptorPerCandidate ==
    loadResult # "unset" =>
        Cardinality(ReturnedDescriptors) = Cardinality(Candidates)

CogLines(f) ==
    { i \in 1..Len(log) :
        /\ log[i].msg \in {"Loaded cog", "Failed to load cog"}
        /\ log[i].args = f.stem }

\* C9 (amended): load_cogs returns None; what it leaves per candidate is
\* one log line, "Loaded cog" at INFO if the load succeeded and "Failed to
\* load cog" at ERROR if it raised; a written line is never changed.
C9_LogLines ==
    /\ loadResult \in {"unset", "None"}
    /\ loadResult = "None" =>
          \A f \in Candidates :
              /\ Cardinality(CogLines(f)) = 1
              /\ \A i \in CogLines(f) :
                    IF f \in extensions
                    THEN log[i].level = "INFO" /\ log[i].msg = "Loaded cog"
                    ELSE log[i].level = "ERROR"
                         /\ log[i].msg = "Failed to load cog"

C9_OneLogLinePerCandidate == []C9_LogLines /\ [][IsPrefix(log, log')]_vars

\* two candidates, one loaded and one failed
C9_Witness ==
    /\ loadResult = "None"
    /\ Cardinality(Candidates) = 2
    /\ Cardinality(extensions) = 1

\* the required variables that are absent or empty
MissingNames == {v \in RequiredNames : env[v] = "None" \/ env[v] = ""}

\* C10: preflight gates everything.  With a required variable absent or
\* empty the bot is never constructed, no startup step is attempted, and
\* the process exits with status 1 after one diagnostic naming exactly the
\* missing variables.
C10_PreflightGates ==
    MissingNames # {} =>
        /\ pc \in {"main", "exited"}
        /\ \A s \in Services : self[s] = "unset"
        /\ \A s \in StepNames : attempted[s] = 0
        /\ pc = "exited" =>
              /\ exitStatus = 1
              /\ Len(log) = 1
              /\ log[1].level = "ERROR"
              /\ Len(log[1].args) = Cardinality(MissingNames)
              /\ {log[1].args[i] : i \in 1..Len(log[1].args)} = MissingNames

\* two of the four variables missing, one absent and one empty
C10_Witness ==
    /\ pc = "exited"
    /\ exitStatus = 1
    /\ env["STEAM_API_KEY"] = "None" /\ env["REDIS_URL"] = ""
    /\ Cardinality(MissingNames) = 2

\* the lifecycle state of the bot, read off the control state: Created
\* until bot.start is entered, Starting during login and setup_hook, Ready
\* while the bot runs and no close() has begun, ShuttingDown once a
\* close() has begun or `async with bot` is being left, Stopped when
\* main() has left the block
LifecycleState ==
    IF self["db"] = "unset" \/ pc = "start" THEN "Created"
    ELSE IF pc \in {"exit", "exited"} THEN "Stopped"
    ELSE IF pc \in {"aexit", "closing"}
            \/ \E c \in Closers : closer[c].st # "idle" THEN "ShuttingDown"
    ELSE IF pc = "running" THEN "Ready"
    ELSE "Starting"

StateRank(s) ==
    CASE s = "Created" -> 0
      [] s = "Starting" -> 1
      [] s = "Ready" -> 2
      [] s = "ShuttingDown" -> 3
      [] s = "Stopped" -> 4

\* a step of the chain Created -> Starting -> Ready -> ShuttingDown ->
\* Stopped, or no change of state
ChainStep(s, t) == StateRank(t) = StateRank(s) \/ StateRank(t) = StateRank(s) + 1

\* C11 (as claimed): the state moves along the chain, the only skip is
\* Starting -> Stopped on a startup failure, and after a startup failure
\* neither the Ready body nor the cleanup body runs.
C11_FailureSkipsToStopped ==
    [][/\ \/ ChainStep(LifecycleState, LifecycleState')
          \/ (LifecycleState = "Starting" /\ LifecycleState' = "Stopped"
              /\ failedAt' # "none")
       /\ failedAt' # "none" =>
             /\ LifecycleState' \notin {"Ready", "ShuttingDown"}
             /\ readyCalls' = 0
             /\ \A c \in Closers : closer'[c].st = "idle"]_vars

\* C11 (amended): the state moves along the chain, the only skip is
\* Starting -> ShuttingDown on a startup failure; after a startup failure
\* the Ready body never runs, and the cleanup body has run by the time
\* the state is Stopped.
C11_FailureSkipsToShuttingDown ==
    [][/\ \/ ChainStep(LifecycleState, LifecycleState')
          \/ (LifecycleState = "Starting" /\ LifecycleState' = "ShuttingDown"
              /\ failedAt' # "none")
       /\ failedAt' # "none" =>
             /\ LifecycleState' # "Ready"
             /\ readyCalls' = 0
             /\ LifecycleState' = "Stopped" => closer'[0].st # "idle"]_vars

\* storage connect raised: the run went Starting -> ShuttingDown ->
\* Stopped and the cleanup body ran to its end
C11_Witness ==
    /\ LifecycleState = "Stopped"
    /\ failedAt = "db"
    /\ closer[0].st = "done"
    /\ readyCalls = 0

\* C12: startup failures are fatal and surfaced.  Once a startup step has
\* raised, setup_hook is in its except clause or has re-raised to main(),
\* the bot never runs, and the process exits with a non-zero status.
C12_StartupFailureFatal ==
    failedAt \in StepNames =>
        /\ pc \in {"except", "aexit", "closing", "exit", "exited"}
        /\ readyCalls = 0 /\ ~hookCalled
        /\ \A c \in Closers : c # 0 => closer[c].st = "idle"
        /\ pc = "exited" => exitStatus > 0

\* the price tracker failed to start, the teardown went through cleanly,
\* and the process still exited with status 1
C12_Witness ==
    /\ pc = "exited"
    /\ failedAt = "price_tracker"
    /\ closer[0].st = "done"
    /\ exitStatus = 1

C14_RegistryFrozen ==
    [][self' # self =>
          pc \in {"init", "db", "cache", "steam_client", "price_tracker"}]_vars

\* after a complete shutdown all four handles are still the ones startup
\* assigned
C14_Witness ==
    /\ pc = "exited"
    /\ closer[0].st = "done"
    /\ closer[0].trace = <<"price_tracker", "db", "cache">>
    /\ \A s \in Services : self[s] = "obj"

\* every startup step and every extension load succeeded
HappyPath ==
    /\ missing_vars(env) = <<>>
    /\ failedAt = "none"
    /\ AllStarted
    /\ self["steam_client"] = "obj"
    /\ loadResult = "None"
    /\ Candidates \subseteq extensions

C16_ShutdownNothingStarted ==
    (\A s \in Services : self[s] # "obj") =>
        /\ \A s \in Managed : cleanups[s] = 0
        /\ \A c \in Closers :
              closer[c].trace = <<>> /\ closer[c].st # "raised"

\* login failed, so setup_hook never ran; the close() of the exit of
\* `async with bot` went through without touching a service
C16_Witness ==
    /\ pc = "exited"
    /\ failedAt = "login"
    /\ closer[0].st = "done"
    /\ closed
    /\ \A s \in Services : self[s] = "None"

\* the step has completed successfully
StepDone(s) ==
    /\ attempted[s] = 1
    /\ s \in Services => self[s] = "obj"
    /\ s \in Managed => started[s]

\* C17: startup is sequential and in order.  No step is attempted twice;
\* a step is attempted only after __init__ and after every earlier step
\* has completed successfully; the price tracker is constructed only
\* after storage and cache have connected.
C17_SequentialStartup ==
    /\ \A s \in StepNames : attempted[s] <= 1
    /\ \A j \in 1..Len(Steps) :
          attempted[Steps[j]] >= 1 =>
              /\ \A s \in Services : self[s] # "unset"
              /\ \A i \in 1..(j - 1) : StepDone(Steps[i])
    /\ self["price_tracker"] = "obj" => (started["db"] /\ started["cache"])

\* all five steps were attempted, once each, and the bot runs
C17_Witness ==
    /\ pc = "running"
    /\ \A s \in StepNames : attempted[s] = 1

\* C18: no leaked resource after a failed startup.  When the process has
\* exited after a startup step raised, the cleanup of every service that
\* had started has been invoked.
C18_NoLeakAfterFailedStartup ==
    (pc = "exited" /\ failedAt \in StepNames) =>
        \A s \in Managed : started[s] => cleanups[s] >= 1

\* C19: Ready implies a fully populated registry.  While the bot runs all
\* four handles are set and storage, cache and price tracker have each
\* connected or started successfully exactly once.
C19_ReadyRegistryPopulated ==
    pc = "running" =>
        /\ \A s \in Services : self[s] = "obj"
        /\ \A s \in Managed : started[s] /\ attempted[s] = 1

\* the bot is Ready although an extension failed to load
C19_Witness ==
    /\ LifecycleState = "Ready"
    /\ loadResult = "None"
    /\ \E f \in Candidates : loadAttempts[f] = 1 /\ f \notin extensions
    /\ \A s \in Services : self[s] = "obj"

====
